---- MODULE Spec2Model ----
(***************************************************************************)
(* Model of the product-photography service: the /api/process handler of   *)
(* app.py and the per-image pipeline of image_processor.py.                *)
(*                                                                         *)
(* Python values are modelled as follows.                                  *)
(*   - None is the empty tuple <<>>, any other value x of an optional      *)
(*     field is the one-element tuple <<x>>.                               *)
(*   - A file name is the tuple of its '.'-separated segments, so "a.png"  *)
(*     is <<"a", "png">> and the empty name "" is <<"">>.                  *)
(*   - A PIL image is [mode, px]: px is one row of pixels, each pixel the  *)
(*     tuple of its channel values (RGB 3, RGBA 4, L 1, P 1 palette index).*)
(***************************************************************************)
EXTENDS Integers, Sequences, FiniteSets, TLC

\* ------------------------------------------------------------------ bounds
\* Longest batch whose files are enumerated one by one.
MaxBatch == 3

\* ------------------------------------------------------- program constants
\* app.py:49, the largest number of files the handler accepts.
MAX_FILES == 10
\* image_processor.py:34, the Gaussian kernel size.
KSIZE == 5
\* The largest 8-bit channel value (opaque alpha, white).
MAXV == 255

None == <<>>
Some(x) == <<x>>

ALLOWED_EXTENSIONS == {"png", "jpg", "jpeg", "webp"}

\* ------------------------------------------------------------------ images
NoImage == [mode |-> "none", px |-> <<>>]

\* The palette of the palette-mode test images (index 1 black, index 2 red).
Palette == <<<<0, 0, 0>>, <<MAXV, 0, 0>>>>

\* PIL Image.convert('RGB'): RGBA drops its alpha channel, P looks its
\* indices up in the palette, L repeats its value, RGB is copied.
ConvertPixelRGB(mode, p) ==
    CASE mode = "RGBA" -> <<p[1], p[2], p[3]>>
      [] mode = "P"    -> Palette[p[1]]
      [] mode = "L"    -> <<p[1], p[1], p[1]>>
      [] OTHER         -> p

convert_RGB(im) ==
    [mode |-> "RGB", px |-> [k \in 1..Len(im.px) |-> ConvertPixelRGB(im.mode, im.px[k])]]

\* PIL Image.convert('RGBA'): as convert('RGB'), with the image's own alpha
\* or an opaque one.
convert_RGBA(im) ==
    [mode |-> "RGBA",
     px |-> [k \in 1..Len(im.px) |->
               IF im.mode = "RGBA" THEN im.px[k]
               ELSE ConvertPixelRGB(im.mode, im.px[k]) \o <<MAXV>>]]

\* np.array(pil_image): the row of pixels; its channel count is the pixel length.
Channels(im) == IF im.px = <<>> THEN 0 ELSE Len(im.px[1])

\* cv2.cvtColor(.., COLOR_RGB2BGR) and COLOR_BGR2RGB: swap the first and third
\* channel and keep three channels.
SwapRB(arr) == [k \in 1..Len(arr) |-> <<arr[k][3], arr[k][2], arr[k][1]>>]

\* cv2.BORDER_REFLECT_101 (the default border of GaussianBlur), 1-indexed.
RECURSIVE Reflect101(_, _)
Reflect101(j, w) ==
    IF w = 1 THEN 1
    ELSE IF j < 1 THEN Reflect101(2 - j, w)
    ELSE IF j > w THEN Reflect101(2 * w - j, w)
    ELSE j

\* The kernel cv2 uses for ksize 5 and sigma 0: (1, 4, 6, 4, 1) / 16.
Kernel == <<1, 4, 6, 4, 1>>
KernelSum == Kernel[1] + Kernel[2] + Kernel[3] + Kernel[4] + Kernel[5]

\* cv2.GaussianBlur(cv_image, (5, 5), 0) on a one-row image: the vertical pass
\* is the identity (every reflected row is the row itself), the horizontal pass
\* is the kernel over the reflected neighbours, rounded to nearest.
BlurChannel(arr, k, c) ==
    LET w == Len(arr)
        half == (KSIZE - 1) \div 2
        term(d) == Kernel[d + half + 1] * arr[Reflect101(k + d, w)][c]
        total == term(-2) + term(-1) + term(0) + term(1) + term(2)
    IN (total + (KernelSum \div 2)) \div KernelSum

GaussianBlur(arr) ==
    [k \in 1..Len(arr) |-> <<BlurChannel(arr, k, 1), BlurChannel(arr, k, 2), BlurChannel(arr, k, 3)>>]

\* The steps of reduce_noise_cv at which a failure can be injected.
NoiseSteps == {"convert", "array", "cvtColor", "blur", "fromarray"}

\* reduce_noise_cv(pil_image).  failAt is the internal step that raises
\* ("none": no injected failure).  Line 32 REBINDS pil_image to the converted
\* image, and the except branch (line 38) returns whatever pil_image is bound to
\* when the failure happens.  cv2.cvtColor itself raises on an array that has
\* not 3 or 4 channels (mode L).
reduce_noise_cv(pil_image, failAt) ==
    LET needs == pil_image.mode \in {"RGBA", "P"}
        bound == IF needs THEN convert_RGB(pil_image) ELSE pil_image
        cvtRaises == Channels(bound) \notin {3, 4}
    IN IF needs /\ failAt = "convert" THEN pil_image
       ELSE IF failAt \in {"array", "cvtColor", "blur", "fromarray"} \/ cvtRaises
            THEN bound
       ELSE [mode |-> "RGB", px |-> SwapRB(GaussianBlur(SwapRB(bound.px)))]

\* Whether reduce_noise_cv(pil_image) takes its except branch.
noise_failed(pil_image, failAt) ==
    \/ pil_image.mode \in {"RGBA", "P"} /\ failAt = "convert"
    \/ failAt \in {"array", "cvtColor", "blur", "fromarray"}
    \/ Channels(IF pil_image.mode \in {"RGBA", "P"} THEN convert_RGB(pil_image) ELSE pil_image) \notin {3, 4}

\* rembg.remove(pil_image): the cutout of the image by the segmentation mask
\* (one value of {0, MAXV} per pixel): a foreground pixel keeps its RGBA value,
\* a background pixel becomes fully transparent black.
remove(im, mask) ==
    LET rgba == convert_RGBA(im)
    IN [mode |-> "RGBA",
        px |-> [k \in 1..Len(im.px) |->
                  IF mask[k] = MAXV THEN rgba.px[k] ELSE <<0, 0, 0, 0>>]]

\* Image.paste(fg, mask = alpha of fg) over a solid colour: alpha blending.
PasteOver(fg, color) ==
    [mode |-> "RGB",
     px |-> [k \in 1..Len(fg.px) |->
               LET a == fg.px[k][4]
                   mix(c) == (fg.px[k][c] * a + color[c] * (MAXV - a) + (MAXV \div 2)) \div MAXV
               IN <<mix(1), mix(2), mix(3)>>]]

RembgSteps == {"remove", "paste"}

\* remove_background_rembg(pil_image, bg_color).  failAt is the step that
\* raises; pil_image is never rebound, so the except branch returns the input.
remove_background_rembg(pil_image, bg_color, mask, failAt) ==
    IF failAt = "remove" THEN pil_image
    ELSE LET result == remove(pil_image, mask)
         IN IF bg_color[4] = 0 THEN result
            ELSE IF failAt = "paste" THEN pil_image
            ELSE PasteOver(result, bg_color)

rembg_failed(bg_color, failAt) ==
    failAt = "remove" \/ (failAt = "paste" /\ bg_color[4] # 0)

\* The image call_gemini_image_editing sends (lines 60-65): an RGBA image is
\* pasted over white, any other is converted to RGB.
image_to_send(im) ==
    IF im.mode = "RGBA" THEN PasteOver(im, <<MAXV, MAXV, MAXV>>) ELSE convert_RGB(im)

\* --------------------------------------------------------------- file names
\* str.lower() on the extensions used here.
Lower(seg) ==
    CASE seg = "PNG"  -> "png"
      [] seg = "JPEG" -> "jpeg"
      [] seg = "GIF"  -> "gif"
      [] OTHER        -> seg

\* allowed_file(filename): '.' in filename and
\* filename.rsplit('.', 1)[1].lower() in ALLOWED_EXTENSIONS.
allowed_file(filename) ==
    Len(filename) >= 2 /\ Lower(filename[Len(filename)]) \in ALLOWED_EXTENSIONS

\* bool(file): a werkzeug FileStorage is truthy iff its filename is not empty.
Truthy(file) == file.filename # <<"">>

\* The test of line 55.
Accepted(file) == Truthy(file) /\ allowed_file(file.filename)

\* werkzeug secure_filename on the names used here: a space becomes '_'.
SecureSeg(seg) == IF seg = "my photo" THEN "my_photo" ELSE seg
secure_filename(filename) == [k \in 1..Len(filename) |-> SecureSeg(filename[k])]

\* os.path.splitext(os.path.basename(image_path))[0] of an upload path
\* <<uuid, name>>: the name without its last '.'-segment.
BaseName(path) ==
    LET name == path[2]
    IN <<path[1], IF Len(name) >= 2 THEN SubSeq(name, 1, Len(name) - 1) ELSE name>>

PrePath(base)    == <<"preprocessed", base, "_pre.png">>
GeminiPath(base) == <<"gemini_edited", base, "_gemini.png">>

\* ------------------------------------------------------------ test inputs
ImgRGBA == [mode |-> "RGBA", px |-> <<<<MAXV, 0, 0, MAXV>>, <<0, 0, MAXV, 0>>>>]
ImgP    == [mode |-> "P",    px |-> <<<<2>>, <<1>>>>]
ImgRGB  == [mode |-> "RGB",  px |-> <<<<MAXV, MAXV, 0>>, <<0, 0, 0>>>>]
ImgL    == [mode |-> "L",    px |-> <<<<MAXV>>, <<0>>>>]

\* The files a request may carry: an RGBA png, a greyscale webp, a file with an
\* allowed extension whose bytes are no image, a gif, and the nameless part a
\* browser sends for an empty file input.
FileKinds ==
    { [filename |-> <<"a", "png">>,         content |-> Some(ImgRGBA)],
      [filename |-> <<"d", "webp">>,        content |-> Some(ImgL)],
      [filename |-> <<"my photo", "JPEG">>, content |-> None],
      [filename |-> <<"c", "gif">>,         content |-> Some(ImgRGB)],
      [filename |-> <<"">>,                 content |-> None] }

\* The batches: every batch of at most MaxBatch files, and one batch that is
\* one file over the limit.
Batches ==
    UNION { [1..n -> FileKinds] : n \in 1..MaxBatch }
      \cup { [k \in 1..(MAX_FILES + 1) |-> [filename |-> <<"a", "png">>, content |-> Some(ImgRGBA)]] }

FormKeys == {None, Some(""), Some("form-key")}
EnvKeys  == {None, Some("env-key")}

\* ------------------------------------------------------------------- state
VARIABLES
    SDK_AVAILABLE,   \* image_processor.py:14/16, fixed at import
    envKey,          \* os.environ GOOGLE_API_KEY: None when unset
    hasField,        \* 'files[]' in request.files
    files,           \* request.files.getlist('files[]')
    formKey,         \* the api_key form field: None when the field is not sent
    pc,              \* position of the handler
    api_key,         \* app.py:41
    i,               \* index of the file the for loop of app.py:54 is at
    results,         \* app.py:53
    status,          \* HTTP status of the response, 0 while there is none
    body,            \* the JSON payload of the response
    uploads,         \* files written under uploads/
    preprocessed,    \* files written under output/preprocessed/
    gemini_edited,   \* files written under output/gemini_edited/
    uuids,           \* number of uuid4() values drawn
    original_filename, \* app.py:57
    file_path,       \* app.py:59
    result,          \* process_image: the result dict
    elapsed,         \* process_image: time.time() - start_time so far, in ms
    img,             \* process_image locals
    denoised,
    bg_removed,
    edited,
    noiseFail,       \* the step of reduce_noise_cv that failed in this run
    rembgFail,       \* the step of remove_background_rembg that failed
    bgColor,         \* the bg_color remove_background_rembg was called with
    image_sent,      \* call_gemini_image_editing: image_to_send
    response,        \* what client.models.generate_content gave
    calls,           \* the upload paths the remote service was called for
    raised,          \* per file: the message of the exception its handling raised
    stage            \* per file: the pipeline states it went through

vars == <<SDK_AVAILABLE, envKey, hasField, files, formKey, pc, api_key, i, results,
          status, body, uploads, preprocessed, gemini_edited, uuids,
          original_filename, file_path, result, elapsed, img, denoised, bg_removed,
          edited, noiseFail, rembgFail, bgColor, image_sent, response, calls, raised, stage>>

requestVars == <<SDK_AVAILABLE, envKey, hasField, files, formKey>>
diskVars    == <<uploads, preprocessed, gemini_edited>>
imageVars   == <<img, denoised, bg_removed, edited, noiseFail, rembgFail, bgColor,
                 image_sent, response>>

NoResponse == [kind |-> "none"]

\* The locals of process_image before it runs and after it returned.
NoLocals ==
    /\ img = NoImage /\ denoised = NoImage /\ bg_removed = NoImage /\ edited = NoImage
    /\ noiseFail = "none" /\ rembgFail = "none" /\ bgColor = <<>>
    /\ image_sent = NoImage
    /\ response = NoResponse

\* ------------------------------------------------------------- the remote call
\* A message is the tuple of the strings it is the concatenation of.
Msg(text) == <<text>>

TextPart  == [text |-> Some("ok"), inline_data |-> None]
ImagePart == [text |-> None, inline_data |-> Some(<<"PNG", ImgRGB>>)]
EmptyPart == [text |-> None, inline_data |-> Some(<<>>)]

\* What client.models.generate_content can do: raise, or return a response that
\* has no candidate, a candidate with text only, with an inline payload without
\* data, or with an image after a text part.
Responses ==
    { [kind |-> "raise", msg |-> Msg("503 UNAVAILABLE")],
      [kind |-> "ok", candidates |-> <<>>],
      [kind |-> "ok", candidates |-> << <<TextPart, EmptyPart>> >>],
      [kind |-> "ok", candidates |-> << <<TextPart, ImagePart>> >>] }

\* The test of line 76.
HasImageData(part) == part.inline_data # None /\ part.inline_data[1] # <<>>

\* Whether a response carries an inline image payload.
HasImagePayload(resp) ==
    /\ resp.kind = "ok"
    /\ \E c \in 1..Len(resp.candidates) :
          \E k \in 1..Len(resp.candidates[c]) : HasImageData(resp.candidates[c][k])

\* Image.open(BytesIO(image_bytes)): decodes the PNG payload.
OpenBytes(bytes) == bytes[2]

\* The loop of lines 75-78: the first part with image data, or None.
RECURSIVE FirstImage(_)
FirstImage(parts) ==
    IF parts = <<>> THEN None
    ELSE IF HasImageData(parts[1]) THEN Some(OpenBytes(parts[1].inline_data[1]))
    ELSE FirstImage(Tail(parts))

Return(v) == [kind |-> "return", value |-> v]
Raise(m)  == [kind |-> "raise", msg |-> m]

\* call_gemini_image_editing(api_key, model_name, prompt, input_pil_image), given
\* what generate_content does.  Everything from line 59 on is inside the try:
\* an exception there, response.candidates[0] on an empty list included, is
\* re-raised as Exception("Gemini API error: ...").
call_gemini_image_editing(sdk, input_pil_image, resp) ==
    IF ~sdk \/ input_pil_image = NoImage THEN Return(None)
    ELSE IF resp.kind = "raise" THEN Raise(Msg("Gemini API error: ") \o resp.msg)
    ELSE IF resp.candidates = <<>>
         THEN Raise(Msg("Gemini API error: ") \o Msg("list index out of range"))
    ELSE Return(FirstImage(resp.candidates[1]))

\* ------------------------------------------------------------- the result dict
\* process_image lines 87-93.
NewResult ==
    [success |-> FALSE, preprocessed_path |-> None, gemini_path |-> None,
     error |-> None, processing_time |-> 0]

\* Line 111.
WithPreprocessed(res, path) == [res EXCEPT !.preprocessed_path = Some(path)]

\* Lines 119-120 with the path assignment forgotten.
WithGeminiNoPath(res, path) == [res EXCEPT !.success = TRUE]

\* Lines 119-120.
WithGemini(res, path) == [res EXCEPT !.gemini_path = Some(path), !.success = TRUE]

\* Lines 122, 124 and 127.
WithError(res, msg) == [res EXCEPT !.error = Some(msg)]

\* round(seconds, 2) of a time in milliseconds, in hundredths of a second.
Round2(ms) == (ms + 5) \div 10

\* Line 129 and app.py:67.
Finished(res, ms, name) ==
    [success |-> res.success, preprocessed_path |-> res.preprocessed_path,
     gemini_path |-> res.gemini_path, error |-> res.error,
     processing_time |-> Round2(ms), original_filename |-> name]

\* app.py:70-74, the entry the handler's own except branch appends.
OuterFailure(name, msg) ==
    [original_filename |-> name, error |-> msg, success |-> FALSE]

\* Milliseconds one pipeline step takes.
StepMs == 7

\* -------------------------------------------------------------- validation
\* app.py:41.
ResolveKey(form, env) ==
    IF form # None THEN form[1] ELSE IF env # None THEN env[1] ELSE ""

\* app.py:49 with the limit off by one.
TooManyOffByOne(fs) == Len(fs) > MAX_FILES + 1

\* app.py:49.
TooMany(fs) == Len(fs) > MAX_FILES

\* The checks of app.py:36-50 in the code's order: the error message, or None
\* when the request passes.
Validation(field, fs, key) ==
    IF ~field THEN Some("No files provided")
    ELSE IF key = "" THEN Some("API key is required")
    ELSE IF Len(fs) = 0 THEN Some("No files selected")
    ELSE IF TooMany(fs) THEN Some("Maximum 10 files allowed")
    ELSE None

\* No response yet, and no result dict (process_image is not running).
NoBody   == [none |-> TRUE]
NoResult == [none |-> TRUE]

\* ------------------------------------------------------------------ Init
\* A request has arrived.  A multipart body without the files[] field has no
\* files, and one with the field has at least one.
Init ==
    /\ SDK_AVAILABLE \in BOOLEAN
    /\ envKey \in EnvKeys
    /\ formKey \in FormKeys
    /\ hasField \in BOOLEAN
    /\ files \in (IF hasField THEN Batches ELSE {<<>>})
    /\ pc = "recv"
    /\ api_key = ""
    /\ i = 0
    /\ results = <<>>
    /\ status = 0
    /\ body = NoBody
    /\ uploads = {} /\ preprocessed = {} /\ gemini_edited = {}
    /\ uuids = 0
    /\ original_filename = None
    /\ file_path = None
    /\ result = NoResult
    /\ elapsed = 0
    /\ NoLocals
    /\ calls = <<>>
    /\ raised = [k \in 1..Len(files) |-> None]
    /\ stage = [k \in 1..Len(files) |-> <<>>]

ClearLocals ==
    /\ img' = NoImage /\ denoised' = NoImage /\ bg_removed' = NoImage /\ edited' = NoImage
    /\ noiseFail' = "none" /\ rembgFail' = "none" /\ bgColor' = <<>>
    /\ image_sent' = NoImage
    /\ response' = NoResponse

Enter(k, name) == stage' = [stage EXCEPT ![k] = Append(@, name)]

\* ----------------------------------------------------------------- actions
\* app.py:36-53: the batch-level checks; a failed one answers 400 at once.
Validate ==
    /\ pc = "recv"
    /\ LET key == ResolveKey(formKey, envKey)
           err == Validation(hasField, files, key)
       IN /\ api_key' = key
          /\ IF err # None
             THEN /\ status' = 400
                  /\ body' = [error |-> err[1]]
                  /\ pc' = "done"
                  /\ i' = i
             ELSE /\ pc' = "loop"
                  /\ i' = 1
                  /\ UNCHANGED <<status, body>>
    /\ UNCHANGED <<requestVars, diskVars, imageVars, results, uuids, original_filename,
                   file_path, result, elapsed, calls, raised, stage>>

\* app.py:54-55: a file that is falsy or has no allowed extension is passed over.
SkipFile ==
    /\ pc = "loop"
    /\ i <= Len(files)
    /\ ~Accepted(files[i])
    /\ i' = i + 1
    /\ UNCHANGED <<requestVars, diskVars, imageVars, pc, api_key, results, status, body,
                   uuids, original_filename, file_path, result, elapsed, calls, raised, stage>>

\* app.py:57-59: the names of an accepted file.
NameFile ==
    /\ pc = "loop"
    /\ i <= Len(files)
    /\ Accepted(files[i])
    /\ uuids' = uuids + 1
    /\ original_filename' = secure_filename(files[i].filename)
    /\ file_path' = <<uuids + 1, secure_filename(files[i].filename)>>
    /\ pc' = "save_upload"
    /\ UNCHANGED <<requestVars, diskVars, imageVars, api_key, i, results, status, body,
                   result, elapsed, calls, raised, stage>>

\* app.py:60: file.save(file_path) goes well.
SaveUpload ==
    /\ pc = "save_upload"
    /\ uploads' = uploads \cup {file_path}
    /\ Enter(i, "Uploaded")
    /\ pc' = "process_image"
    /\ UNCHANGED <<requestVars, preprocessed, gemini_edited, imageVars, api_key, i, results,
                   status, body, uuids, original_filename, file_path, result, elapsed,
                   calls, raised>>

\* app.py:60: file.save(file_path) raises (a full disk, a name too long for the
\* file system).  The call is outside the try of line 63: the exception leaves
\* the handler and Flask answers 500.
SaveUploadRaises ==
    /\ pc = "save_upload"
    /\ raised' = [raised EXCEPT ![i] = Some(Msg("upload save failed"))]
    /\ status' = 500
    /\ body' = [error |-> "Internal Server Error"]
    /\ pc' = "done"
    /\ UNCHANGED <<requestVars, diskVars, imageVars, api_key, i, results, uuids,
                   original_filename, file_path, result, elapsed, calls, stage>>

\* image_processor.py:87-96: the result dict and the start time.
StartImage ==
    /\ pc = "process_image"
    /\ result' = NewResult
    /\ elapsed' = 0
    /\ pc' = "open"
    /\ UNCHANGED <<requestVars, diskVars, imageVars, api_key, i, results, status, body,
                   uuids, original_filename, file_path, calls, raised, stage>>

\* process_image raises outside its own try block (lines 87-96, a MemoryError
\* for one): app.py:69-74 appends the handler's own entry.
ProcessImageRaises ==
    /\ pc = "process_image"
    /\ LET msg == Msg("process_image failed")
       IN /\ results' = Append(results, OuterFailure(original_filename, Some(msg)))
          /\ raised' = [raised EXCEPT ![i] = Some(msg)]
    /\ Enter(i, "Reported")
    /\ i' = i + 1
    /\ pc' = "loop"
    /\ result' = NoResult
    /\ elapsed' = 0
    /\ original_filename' = None
    /\ file_path' = None
    /\ ClearLocals
    /\ UNCHANGED <<requestVars, diskVars, api_key, status, body, uuids, calls>>

\* image_processor.py:100: Image.open(image_path); bytes that are no image raise,
\* and line 126 catches.
OpenImage ==
    /\ pc = "open"
    /\ elapsed' = elapsed + StepMs
    /\ IF files[i].content = None
       THEN /\ result' = WithError(result, Msg("cannot identify image file"))
            /\ raised' = [raised EXCEPT ![i] = Some(Msg("cannot identify image file"))]
            /\ pc' = "finish"
            /\ img' = img
       ELSE /\ img' = files[i].content[1]
            /\ pc' = "denoise"
            /\ UNCHANGED <<result, raised>>
    /\ UNCHANGED <<requestVars, diskVars, denoised, bg_removed, edited, noiseFail, rembgFail,
                   bgColor, image_sent, response, api_key, i, results, status, body, uuids,
                   original_filename, file_path, calls, stage>>

\* The failures injected into the two preprocessing steps of a request.
HandlerNoiseFail == {"none", "blur"}
HandlerRembgFail == {"none", "remove"}

\* The segmentation mask of a request's image: all foreground.
FullMask(im) == [k \in 1..Len(im.px) |-> MAXV]

\* image_processor.py:103.
Denoise ==
    /\ pc = "denoise"
    /\ \E f \in HandlerNoiseFail :
          /\ noiseFail' = f
          /\ denoised' = reduce_noise_cv(img, f)
    /\ elapsed' = elapsed + StepMs
    /\ Enter(i, "Denoised")
    /\ pc' = "rembg"
    /\ UNCHANGED <<requestVars, diskVars, img, bg_removed, edited, rembgFail, bgColor,
                   image_sent, response, api_key, i, results, status, body, uuids, original_filename,
                   file_path, result, calls, raised>>

\* image_processor.py:106.
RemoveBackground ==
    /\ pc = "rembg"
    /\ \E f \in HandlerRembgFail :
          /\ rembgFail' = f
          /\ bgColor' = <<MAXV, MAXV, MAXV, 0>>
          /\ bg_removed' = remove_background_rembg(denoised, <<MAXV, MAXV, MAXV, 0>>,
                                                   FullMask(denoised), f)
    /\ elapsed' = elapsed + StepMs
    /\ Enter(i, "BackgroundRemoved")
    /\ pc' = "save_pre"
    /\ UNCHANGED <<requestVars, diskVars, img, denoised, edited, noiseFail, image_sent,
                   response, api_key, i, results, status, body, uuids, original_filename, file_path,
                   result, calls, raised>>

\* image_processor.py:109-111: bg_removed.save(pre_path), which may raise.
SavePreprocessed ==
    /\ pc = "save_pre"
    /\ elapsed' = elapsed + StepMs
    /\ \E ok \in BOOLEAN :
          IF ok
          THEN /\ preprocessed' = preprocessed \cup {PrePath(BaseName(file_path))}
               /\ result' = WithPreprocessed(result, PrePath(BaseName(file_path)))
               /\ pc' = "edit"
               /\ raised' = raised
          ELSE /\ result' = WithError(result, Msg("No space left on device"))
               /\ raised' = [raised EXCEPT ![i] = Some(Msg("No space left on device"))]
               /\ pc' = "finish"
               /\ preprocessed' = preprocessed
    /\ UNCHANGED <<requestVars, uploads, gemini_edited, imageVars, api_key, i, results,
                   status, body, uuids, original_filename, file_path, calls, stage>>

\* image_processor.py:114 and 123-124: no SDK, or no key.
SkipGemini ==
    /\ pc = "edit"
    /\ ~(SDK_AVAILABLE /\ api_key # "")
    /\ result' = WithError(result, Msg("SDK or API key missing"))
    /\ Enter(i, "Edited")
    /\ pc' = "finish"
    /\ UNCHANGED <<requestVars, diskVars, imageVars, api_key, i, results, status, body,
                   uuids, original_filename, file_path, elapsed, calls, raised>>

\* image_processor.py:114-116 and 121-122: the remote call.
GeminiEdit ==
    /\ pc = "edit"
    /\ SDK_AVAILABLE /\ api_key # ""
    /\ calls' = Append(calls, file_path)
    /\ elapsed' = elapsed + StepMs
    /\ \E resp \in Responses :
          LET out == call_gemini_image_editing(SDK_AVAILABLE, bg_removed, resp)
          IN /\ response' = resp
             /\ image_sent' = image_to_send(bg_removed)
             /\ IF out.kind = "raise"
                THEN /\ result' = WithError(result, out.msg)
                     /\ raised' = [raised EXCEPT ![i] = Some(out.msg)]
                     /\ pc' = "finish"
                     /\ UNCHANGED <<edited, stage>>
                ELSE IF out.value = None
                THEN /\ result' = WithError(result, Msg("Gemini editing failed"))
                     /\ Enter(i, "Edited")
                     /\ pc' = "finish"
                     /\ UNCHANGED <<edited, raised>>
                ELSE /\ edited' = out.value[1]
                     /\ Enter(i, "Edited")
                     /\ pc' = "save_final"
                     /\ UNCHANGED <<result, raised>>
    /\ UNCHANGED <<requestVars, diskVars, img, denoised, bg_removed, noiseFail, rembgFail,
                   bgColor, api_key, i, results, status, body, uuids, original_filename,
                   file_path>>

\* image_processor.py:117-120: edited.save(final_path), which may raise.
SaveFinal ==
    /\ pc = "save_final"
    /\ elapsed' = elapsed + StepMs
    /\ \E ok \in BOOLEAN :
          IF ok
          THEN /\ gemini_edited' = gemini_edited \cup {GeminiPath(BaseName(file_path))}
               /\ result' = WithGemini(result, GeminiPath(BaseName(file_path)))
               /\ raised' = raised
          ELSE /\ result' = WithError(result, Msg("No space left on device"))
               /\ raised' = [raised EXCEPT ![i] = Some(Msg("No space left on device"))]
               /\ gemini_edited' = gemini_edited
    /\ pc' = "finish"
    /\ UNCHANGED <<requestVars, uploads, preprocessed, imageVars, api_key, i, results,
                   status, body, uuids, original_filename, file_path, calls, stage>>

\* image_processor.py:129-130 and app.py:67-68: the time, the name, the append.
Finish ==
    /\ pc = "finish"
    /\ results' = Append(results, Finished(result, elapsed, original_filename))
    /\ Enter(i, "Reported")
    /\ i' = i + 1
    /\ pc' = "loop"
    /\ result' = NoResult
    /\ elapsed' = 0
    /\ original_filename' = None
    /\ file_path' = None
    /\ ClearLocals
    /\ UNCHANGED <<requestVars, diskVars, api_key, status, body, uuids, calls, raised>>

\* app.py:76: every file was looked at.
Respond ==
    /\ pc = "loop"
    /\ i > Len(files)
    /\ status' = 200
    /\ body' = [results |-> results]
    /\ pc' = "done"
    /\ UNCHANGED <<requestVars, diskVars, imageVars, api_key, i, results, uuids,
                   original_filename, file_path, result, elapsed, calls, raised, stage>>

Next ==
    \/ Validate
    \/ SkipFile
    \/ NameFile
    \/ SaveUpload
    \/ SaveUploadRaises
    \/ StartImage
    \/ ProcessImageRaises
    \/ OpenImage
    \/ Denoise
    \/ RemoveBackground
    \/ SavePreprocessed
    \/ SkipGemini
    \/ GeminiEdit
    \/ SaveFinal
    \/ Finish
    \/ Respond

Spec == Init /\ [][Next]_vars

\* ------------------------------------------- the preprocessing stage alone
\* Widest image of the preprocessing specification.
PreWidth == 2

PrePixels(mode) ==
    CASE mode = "RGB"  -> {<<MAXV, 0, 0>>, <<0, 0, MAXV>>, <<MAXV, MAXV, MAXV>>}
      [] mode = "RGBA" -> {<<MAXV, 0, 0, MAXV>>, <<0, 0, MAXV, 0>>, <<0, MAXV, 0, 128>>}
      [] mode = "P"    -> {<<1>>, <<2>>}
      [] mode = "L"    -> {<<0>>, <<MAXV>>}

PreImages ==
    UNION { { [mode |-> m, px |-> p] : p \in UNION { [1..w -> PrePixels(m)] : w \in 1..PreWidth } }
            : m \in {"RGB", "RGBA", "P", "L"} }

\* No request: the handler's state is idle, an image waits for reduce_noise_cv.
InitPre ==
    /\ SDK_AVAILABLE = FALSE
    /\ envKey = None
    /\ formKey = None
    /\ hasField = FALSE
    /\ files = <<>>
    /\ pc = "pre_denoise"
    /\ api_key = ""
    /\ i = 0
    /\ results = <<>>
    /\ status = 0
    /\ body = NoBody
    /\ uploads = {} /\ preprocessed = {} /\ gemini_edited = {}
    /\ uuids = 0
    /\ original_filename = None
    /\ file_path = None
    /\ result = NoResult
    /\ elapsed = 0
    /\ img \in PreImages
    /\ denoised = NoImage /\ bg_removed = NoImage /\ edited = NoImage
    /\ noiseFail = "none" /\ rembgFail = "none" /\ bgColor = <<>>
    /\ image_sent = NoImage
    /\ response = NoResponse
    /\ calls = <<>>
    /\ raised = <<>>
    /\ stage = <<>>

handlerVars == <<requestVars, diskVars, api_key, i, results, status, body, uuids,
                 original_filename, file_path, result, elapsed, calls, raised, stage>>

\* reduce_noise_cv(img) with a failure at any of its steps, or none.
PreDenoise ==
    /\ pc = "pre_denoise"
    /\ \E f \in NoiseSteps \cup {"none"} :
          /\ noiseFail' = f
          /\ denoised' = reduce_noise_cv(img, f)
    /\ pc' = "pre_rembg"
    /\ UNCHANGED <<handlerVars, img, bg_removed, edited, rembgFail, bgColor, image_sent,
                   response>>

\* remove_background_rembg(denoised, bg_color) with a transparent or an opaque
\* white background, any mask, and a failure at any of its steps, or none.
PreRemoveBackground ==
    /\ pc = "pre_rembg"
    /\ \E f \in RembgSteps \cup {"none"}, c \in {<<MAXV, MAXV, MAXV, 0>>, <<MAXV, MAXV, MAXV, MAXV>>},
          mask \in [1..Len(denoised.px) -> {0, MAXV}] :
          /\ rembgFail' = f
          /\ bgColor' = c
          /\ bg_removed' = remove_background_rembg(denoised, c, mask, f)
    /\ pc' = "pre_done"
    /\ UNCHANGED <<handlerVars, img, denoised, edited, noiseFail, image_sent, response>>

NextPre ==
    \/ PreDenoise
    \/ PreRemoveBackground

SpecPre == InitPre /\ [][NextPre]_vars

\* ------------------------------------------------------------------ claims
\* A key of a result entry, None when the entry has no such key.
Field(r, k) == IF k \in DOMAIN r THEN r[k] ELSE None

\* The names (app.py:57) of the accepted files among the first n, in order.
RECURSIVE NamesUpTo(_)
NamesUpTo(n) ==
    IF n = 0 THEN <<>>
    ELSE IF Accepted(files[n])
         THEN Append(NamesUpTo(n - 1), secure_filename(files[n].filename))
    ELSE NamesUpTo(n - 1)

ResultNames(rs) == [k \in 1..Len(rs) |-> rs[k].original_filename]

\* The request passes the handler's batch-level checks.
PassesValidation == Validation(hasField, files, ResolveKey(formKey, envKey)) = None

\* Neither the request nor the environment gives a credential.
NoCredential == formKey \in {None, Some("")} /\ envKey = None

\* The request fails batch-level validation as the specification lists it.
Invalid == ~hasField \/ Len(files) = 0 \/ Len(files) > MAX_FILES \/ NoCredential

NothingProcessed ==
    /\ uploads = {} /\ preprocessed = {} /\ gemini_edited = {}
    /\ results = <<>>
    /\ calls = <<>>
    /\ \A k \in 1..Len(stage) : stage[k] = <<>>
    /\ "results" \notin DOMAIN body

SuccessIffComplete(r) ==
    r.success <=> /\ Field(r, "preprocessed_path") # None
                  /\ Field(r, "gemini_path") # None
                  /\ Field(r, "error") = None

\* C1: every result, the one being built and every one appended or returned,
\* has success = true iff its preprocessed path and its final path are present
\* and it records no error.
C1_SuccessIffComplete ==
    /\ \A k \in 1..Len(results) : SuccessIffComplete(results[k])
    /\ result # NoResult => SuccessIffComplete(result)
    /\ status = 200 => \A k \in 1..Len(body.results) : SuccessIffComplete(body.results[k])

\* A response that reports a success and a failure that has its preprocessed
\* artifact, and a failure of the handler's own boundary.
C1_Witness ==
    /\ status = 200
    /\ \E j, k, l \in 1..Len(body.results) :
          /\ body.results[j].success
          /\ ~body.results[k].success
          /\ Field(body.results[k], "preprocessed_path") # None
          /\ Field(body.results[k], "error") # None
          /\ "preprocessed_path" \notin DOMAIN body.results[l]

\* C2: a request that passes validation is answered with a results list that
\* names exactly the accepted files, in the order they were submitted.
C2_OneEntryPerAcceptedFile ==
    (pc = "done" /\ PassesValidation) =>
        /\ "results" \in DOMAIN body
        /\ ResultNames(body.results) = NamesUpTo(Len(files))

\* C3: a request that fails batch-level validation is answered 400 with an
\* error payload, and nothing is written, run or reported for it.
C3_RejectedUnprocessed ==
    /\ (Invalid \/ status = 400) => NothingProcessed
    /\ (Invalid /\ pc = "done") => (status = 400 /\ DOMAIN body = {"error"})

\* A batch one file over the limit, sent with a credential, was rejected.
C3_Witness ==
    /\ pc = "done"
    /\ status = 400
    /\ Len(files) = MAX_FILES + 1
    /\ ~NoCredential
    /\ body.error = "Maximum 10 files allowed"

\* C4: a request with a credential and 1 to 10 files, none of which has an
\* allowed extension, is answered 400.
C4_AllDisallowedRejected ==
    ( /\ pc = "done"
      /\ hasField
      /\ api_key # ""
      /\ Len(files) \in 1..MAX_FILES
      /\ \A k \in 1..Len(files) : ~allowed_file(files[k].filename) )
    => status = 400

\* The position of file k's entry in the results list.
Pos(k) == Len(NamesUpTo(k))

\* C5: for a request that passes validation the response is 200, every
\* accepted file has its entry, and a file whose handling raised has
\* success = false and the exception's message as error.
C5_FailuresIsolated ==
    (pc = "done" /\ PassesValidation) =>
        /\ status = 200
        /\ \A k \in 1..Len(files) :
              Accepted(files[k]) =>
                 /\ Pos(k) <= Len(results)
                 /\ raised[k] # None =>
                       /\ ~results[Pos(k)].success
                       /\ results[Pos(k)].error = raised[k]

\* C6: when generate_content returned a response without an inline image
\* payload, the image's result has success = false, the error "Gemini editing
\* failed", no final path, a preprocessed path, and no final artifact on disk.
C6_NoPayloadReported ==
    (pc = "finish" /\ response.kind = "ok" /\ ~HasImagePayload(response)) =>
        /\ ~result.success
        /\ result.error = Some(Msg("Gemini editing failed"))
        /\ result.gemini_path = None
        /\ result.preprocessed_path # None
        /\ GeminiPath(BaseName(file_path)) \notin gemini_edited

\* C7: a preprocessing step that failed internally returned exactly the image
\* it was given.
C7_DegradeReturnsInput ==
    /\ (pc \in {"pre_rembg", "pre_done"} /\ noise_failed(img, noiseFail)) => denoised = img
    /\ (pc = "pre_done" /\ rembg_failed(bgColor, rembgFail)) => bg_removed = denoised

\* C8: for a request that carries the files field, the credential is the
\* request's when it gives one, else the environment's, and the request is
\* rejected for a missing credential only when neither gives one.
C8_CredentialResolution ==
    (pc # "recv" /\ hasField) =>
        /\ api_key = (IF formKey \notin {None, Some("")} THEN formKey[1]
                      ELSE IF envKey # None THEN envKey[1] ELSE "")
        /\ (status = 400 /\ body.error = "API key is required") => NoCredential
        /\ NoCredential => (status = 400 /\ body.error = "API key is required")

ResultKeys ==
    {"success", "preprocessed_path", "gemini_path", "error", "processing_time",
     "original_filename"}

\* C9: every entry of the results list has all six keys.
C9_SixKeys ==
    /\ \A k \in 1..Len(results) : DOMAIN results[k] = ResultKeys
    /\ status = 200 => \A k \in 1..Len(body.results) : DOMAIN body.results[k] = ResultKeys

Canon == <<"Uploaded", "Denoised", "BackgroundRemoved", "Edited", "Reported">>

\* The states in order, or a prefix of them followed by Reported.
LegalHistory(h) ==
    \E m \in 0..Len(Canon) :
        \/ h = SubSeq(Canon, 1, m)
        \/ m \in 1..(Len(Canon) - 2) /\ h = Append(SubSeq(Canon, 1, m), "Reported")

Last(h) == h[Len(h)]

\* C10: an accepted image goes through the states in order, leaves the order
\* only for Reported and only after an exception, and is Reported when the
\* request is over; the remote call is made at most once per image and after
\* its preprocessed artifact was written; one image is in the pipeline at a time.
C10_PipelineOrder ==
    /\ \A k \in 1..Len(stage) :
          /\ LegalHistory(stage[k])
          /\ (stage[k] # <<>> /\ Last(stage[k]) = "Reported" /\ Len(stage[k]) < Len(Canon))
                => raised[k] # None
          /\ k < i => (stage[k] = <<>> \/ Last(stage[k]) = "Reported")
          /\ k > i => stage[k] = <<>>
    /\ \A a, b \in 1..Len(calls) : calls[a] = calls[b] => a = b
    /\ \A a \in 1..Len(calls) : PrePath(BaseName(calls[a])) \in preprocessed
    /\ (pc = "done" /\ PassesValidation) =>
          \A k \in 1..Len(files) :
              Accepted(files[k]) => (stage[k] # <<>> /\ Last(stage[k]) = "Reported")

====
